---- MODULE Spec2Model ----
(***************************************************************************)
(* Model of pyglet/canvas/base.py: Screen.get_closest_mode and             *)
(* Screen.get_best_config.                                                 *)
(*                                                                         *)
(* Spec       : one call of get_closest_mode(width, height), one loop      *)
(*              iteration per step, over every list of modes, every        *)
(*              current mode and every request within the bounds.          *)
(* SpecConfig : one call of get_best_config(template), one call of the     *)
(*              abstract get_matching_configs per step, over every         *)
(*              behaviour of the backend within the bounds.                *)
(***************************************************************************)
EXTENDS Integers, Sequences, FiniteSets

\* ---------------------------------------------------------------- bounds
MaxLen == 3
MaxWidth == 2
MaxHeight == 2
MaxConfigs == 2

\* ------------------------------------------------------------ value sets
\* ScreenMode.rate and ScreenMode.depth are only ever compared for equality.
Rates == {60, 75}
Depths == {16, 32}

\* A ScreenMode: the four instance variables of the class.
ScreenMode == [width : 1..MaxWidth, height : 1..MaxHeight,
               depth : Depths, rate : Rates]

\* The lists get_modes() can return.
ModeLists == UNION {[1..n -> ScreenMode] : n \in 0..MaxLen}

\* Python's None for the local `best` and the return value; a mode is
\* otherwise identified by its position in get_modes() (object identity).
None == 0

\* The configs a backend can report and the lists it can return.
Configs == {"cfgA", "cfgB"}
ConfigLists == UNION {[1..n -> Configs] : n \in 0..MaxConfigs}

\* The arguments get_matching_configs is called with: the three templates
\* of the fallback list, in order, and the caller's own template.
FallbackTemplates == <<"db24", "db16", "NoTemplate">>
TemplateKeys == {"db24", "db16", "NoTemplate", "user"}

\* What one call of the abstract get_matching_configs does: it raises
\* NoSuchConfigException or returns a list (possibly empty).
Outcomes == [raises : {TRUE}, items : {<<>>}] \cup
            [raises : {FALSE}, items : ConfigLists]

VARIABLES
    modes,      \* self.get_modes()
    current,    \* self.get_mode()
    width,      \* requested width
    height,     \* requested height
    idx,        \* number of modes the for loop has processed
    best,       \* local `best`: None or a position in modes
    pc,         \* "idle", "loop", "done"
    result,     \* value returned by get_closest_mode
    template,   \* argument of get_best_config: "NoTemplate" (None) or "user"
    matching,   \* behaviour of get_matching_configs per template
    tix,        \* position in the fallback template list
    configs,    \* local `configs`: [isNone, items]
    cpc,        \* "idle", "start", "try", "call", "check", "returned", "raised"
    cresult     \* the config returned or the name of the exception raised

modeVars == <<modes, current, width, height, idx, best, pc, result>>
configVars == <<template, matching, tix, configs, cpc, cresult>>
vars == <<modes, current, width, height, idx, best, pc, result,
          template, matching, tix, configs, cpc, cresult>>

\* ------------------------------------------------ get_closest_mode: body

\* "Reject resolutions that are too small"
TooSmallNoHeight(mode, w, h) == mode.width < w
TooSmallOrEqual(mode, w, h) == mode.width <= w \/ mode.height <= h
TooSmall(mode, w, h) == mode.width < w \/ mode.height < h

\* "Must strictly dominate dimensions"
StrictlyDominatesBoth(mode, b) ==
    mode.width < b.width /\ mode.height < b.height
StrictlyDominatesReversed(mode, b) ==
    /\ mode.width >= b.width
    /\ mode.height >= b.height
    /\ (mode.width > b.width \/ mode.height > b.height)
StrictlyDominates(mode, b) ==
    /\ mode.width <= b.width
    /\ mode.height <= b.height
    /\ (mode.width < b.width \/ mode.height < b.height)

\* Guard of the tie-break block.
SameSizeAlways(mode, b) == TRUE
SameSize(mode, b) == mode.width = b.width /\ mode.height = b.height

\* "Preferably match rate, then depth."
PointsSwapped(mode, b, cur) ==
      (IF mode.rate = cur.rate THEN 1 ELSE 0)
    - (IF b.rate = cur.rate THEN 1 ELSE 0)
    + (IF mode.depth = cur.depth THEN 2 ELSE 0)
    - (IF b.depth = cur.depth THEN 2 ELSE 0)
Points(mode, b, cur) ==
      (IF mode.rate = cur.rate THEN 2 ELSE 0)
    - (IF b.rate = cur.rate THEN 2 ELSE 0)
    + (IF mode.depth = cur.depth THEN 1 ELSE 0)
    - (IF b.depth = cur.depth THEN 1 ELSE 0)

\* The value of `best` after the loop body has run on modes[k].
LoopBody(b, k) ==
    LET mode == modes[k]
        b1 == IF b = None THEN k ELSE b
        b2 == IF StrictlyDominates(mode, modes[b1]) THEN k ELSE b1
        b3 == IF SameSize(mode, modes[b2])
                 /\ Points(mode, modes[b2], current) > 0
              THEN k ELSE b2
    IN  b3

\* ----------------------------------------------- get_best_config: pieces

NoConfigs == [isNone |-> TRUE, items |-> <<>>]

\* Python truth value of `not configs`: None and [] are both falsy.
NotConfigsOnlyNone(c) == c.isNone
NotConfigs(c) == c.isNone \/ c.items = <<>>

\* ------------------------------------------------------------------ Init

ModeIdle ==
    /\ modes = <<>>
    /\ current = [depth |-> 16, rate |-> 60]
    /\ width = 1
    /\ height = 1
    /\ idx = 0
    /\ best = None
    /\ pc = "idle"
    /\ result = None

ConfigIdle ==
    /\ template = "NoTemplate"
    /\ matching = [t \in TemplateKeys |-> [raises |-> TRUE, items |-> <<>>]]
    /\ tix = 1
    /\ configs = NoConfigs
    /\ cpc = "idle"
    /\ cresult = "NoResult"

\* State on entry to the for loop of get_closest_mode.
Init ==
    /\ modes \in ModeLists
    /\ current \in [depth : Depths, rate : Rates]
    /\ width \in 1..MaxWidth
    /\ height \in 1..MaxHeight
    /\ idx = 0
    /\ best = None
    /\ pc = "loop"
    /\ result = None
    /\ ConfigIdle

\* State on entry to get_best_config.
InitConfig ==
    /\ template \in {"NoTemplate", "user"}
    /\ matching \in [TemplateKeys -> Outcomes]
    /\ tix = 1
    /\ configs = NoConfigs
    /\ cpc = "start"
    /\ cresult = "NoResult"
    /\ ModeIdle

\* ----------------------------------------------- get_closest_mode: steps

\* An iteration that hits `continue`.
Reject ==
    /\ pc = "loop"
    /\ idx < Len(modes)
    /\ TooSmall(modes[idx + 1], width, height)
    /\ idx' = idx + 1
    /\ UNCHANGED <<modes, current, width, height, best, pc, result>>
    /\ UNCHANGED configVars

\* An iteration that runs the rest of the body.
Consider ==
    /\ pc = "loop"
    /\ idx < Len(modes)
    /\ ~TooSmall(modes[idx + 1], width, height)
    /\ best' = LoopBody(best, idx + 1)
    /\ idx' = idx + 1
    /\ UNCHANGED <<modes, current, width, height, pc, result>>
    /\ UNCHANGED configVars

\* `return best`
Return ==
    /\ pc = "loop"
    /\ idx = Len(modes)
    /\ result' = best
    /\ pc' = "done"
    /\ UNCHANGED <<modes, current, width, height, idx, best>>
    /\ UNCHANGED configVars

Next == Reject \/ Consider \/ Return

Spec == Init /\ [][Next]_vars

\* ------------------------------------------------ get_best_config: steps

\* `if template is None:` picks the branch.
Branch ==
    /\ cpc = "start"
    /\ cpc' = IF template = "NoTemplate" THEN "try" ELSE "call"
    /\ UNCHANGED <<template, matching, tix, configs, cresult>>
    /\ UNCHANGED modeVars

\* One iteration of the fallback loop whose call raises: `pass`.
TryRaises ==
    /\ cpc = "try"
    /\ tix <= Len(FallbackTemplates)
    /\ matching[FallbackTemplates[tix]].raises
    /\ tix' = tix + 1
    /\ cpc' = IF tix = Len(FallbackTemplates) THEN "check" ELSE "try"
    /\ UNCHANGED <<template, matching, configs, cresult>>
    /\ UNCHANGED modeVars

\* One iteration of the fallback loop whose call returns: assign, `break`.
TryReturns ==
    /\ cpc = "try"
    /\ tix <= Len(FallbackTemplates)
    /\ ~matching[FallbackTemplates[tix]].raises
    /\ configs' = [isNone |-> FALSE,
                   items |-> matching[FallbackTemplates[tix]].items]
    /\ cpc' = "check"
    /\ UNCHANGED <<template, matching, tix, cresult>>
    /\ UNCHANGED modeVars

\* else branch: the call raises and the exception propagates.
CallRaises ==
    /\ cpc = "call"
    /\ matching["user"].raises
    /\ cpc' = "raised"
    /\ cresult' = "NoSuchConfigException"
    /\ UNCHANGED <<template, matching, tix, configs>>
    /\ UNCHANGED modeVars

\* else branch: the call returns.
CallReturns ==
    /\ cpc = "call"
    /\ ~matching["user"].raises
    /\ configs' = [isNone |-> FALSE, items |-> matching["user"].items]
    /\ cpc' = "check"
    /\ UNCHANGED <<template, matching, tix, cresult>>
    /\ UNCHANGED modeVars

\* `if not configs: raise window.NoSuchConfigException()`
CheckRaises ==
    /\ cpc = "check"
    /\ NotConfigs(configs)
    /\ cpc' = "raised"
    /\ cresult' = "NoSuchConfigException"
    /\ UNCHANGED <<template, matching, tix, configs>>
    /\ UNCHANGED modeVars

\* `return configs[0]`; subscripting an empty list raises IndexError.
CheckReturns ==
    /\ cpc = "check"
    /\ ~NotConfigs(configs)
    /\ IF configs.items = <<>>
       THEN cpc' = "raised" /\ cresult' = "IndexError"
       ELSE cpc' = "returned" /\ cresult' = configs.items[1]
    /\ UNCHANGED <<template, matching, tix, configs>>
    /\ UNCHANGED modeVars

NextConfig ==
    \/ Branch
    \/ TryRaises
    \/ TryReturns
    \/ CallRaises
    \/ CallReturns
    \/ CheckRaises
    \/ CheckReturns

SpecConfig == InitConfig /\ [][NextConfig]_vars

\* ---------------------------------------- properties: get_closest_mode

\* The request's notion of a mode that is large enough, stated on its own.
LargeEnough(m) == m.width >= width /\ m.height >= height

\* Positions of the large-enough modes among the first n of get_modes().
LargeIn(n) == {k \in 1..n : LargeEnough(modes[k])}

\* a is smaller than or equal to b in both dimensions and smaller in one.
Smaller(a, b) ==
    /\ a.width <= b.width
    /\ a.height <= b.height
    /\ (a.width < b.width \/ a.height < b.height)

Exact(m) == m.width = width /\ m.height = height

Returned == pc = "done" /\ result # None

\* C1: get_closest_mode returns None if and only if no mode of get_modes()
\* is at least as wide and as high as the request (an empty list included).
C1_NoneIffNoLargeEnough ==
    pc = "done" => ((result = None) <=> (LargeIn(Len(modes)) = {}))

\* C1 witness: a call on a non-empty list with no large-enough mode has
\* returned None.
C1_Witness ==
    /\ pc = "done"
    /\ result = None
    /\ Len(modes) >= 2
    /\ \E k \in 1..Len(modes) : modes[k].width >= width

\* C2: if some mode has exactly the requested size, the returned mode has
\* exactly the requested size; a larger one is returned only when no mode
\* has the requested size.
C2_ExactPreferred ==
    pc = "done" =>
        /\ (\E k \in 1..Len(modes) : Exact(modes[k]))
              => (result # None /\ Exact(modes[result]))
        /\ (result # None /\ ~Exact(modes[result]))
              => (\A k \in 1..Len(modes) : ~Exact(modes[k]))

\* C2 witness: a larger mode came first, a mode of the exact size later, and
\* the exact one was returned.
C2_Witness ==
    /\ Returned
    /\ Len(modes) >= 2
    /\ LargeEnough(modes[1])
    /\ ~Exact(modes[1])
    /\ Exact(modes[result])

\* C3: a returned mode is an element of get_modes() and is at least as wide
\* and as high as the request.
C3_ReturnedIsLargeEnough ==
    Returned => (result \in 1..Len(modes) /\ LargeEnough(modes[result]))

\* C3 witness: a mode was returned from a list that also holds a mode that
\* is too small in one dimension only.
C3_Witness ==
    /\ Returned
    /\ \E k \in 1..Len(modes) :
          /\ ~LargeEnough(modes[k])
          /\ (modes[k].width >= width \/ modes[k].height >= height)

\* C4 as stated: the returned mode is no wider and no higher than every
\* large-enough mode of get_modes(), in whatever order the list is.
C4_SmallestOfAll ==
    Returned =>
        \A k \in LargeIn(Len(modes)) :
            /\ modes[result].width <= modes[k].width
            /\ modes[result].height <= modes[k].height

\* Some large-enough mode is no wider and no higher than every other one.
HasLeast ==
    \E j \in LargeIn(Len(modes)) :
        \A k \in LargeIn(Len(modes)) :
            /\ modes[j].width <= modes[k].width
            /\ modes[j].height <= modes[k].height

\* C4 amended: when the large-enough modes have a least element in both
\* dimensions, the returned mode is no wider and no higher than every
\* large-enough mode, in whatever order the list is.
C4_SmallestWhenLeastExists ==
    (Returned /\ HasLeast) =>
        \A k \in LargeIn(Len(modes)) :
            /\ modes[result].width <= modes[k].width
            /\ modes[result].height <= modes[k].height

\* C4 witness: the least large-enough mode was returned although a strictly
\* larger large-enough mode came first.
C4_Witness ==
    /\ Returned
    /\ HasLeast
    /\ result > 1
    /\ LargeEnough(modes[1])
    /\ Smaller(modes[result], modes[1])

\* Large-enough modes of the same size as the returned one.
SameSizeAsResult ==
    {k \in LargeIn(Len(modes)) :
        /\ modes[k].width = modes[result].width
        /\ modes[k].height = modes[result].height}

RateMatch(k) == modes[k].rate = current.rate
DepthMatch(k) == modes[k].depth = current.depth

\* C5: among the large-enough modes of the returned size, (1) if any has
\* the current mode's rate, so has the returned one, and (2) if any with the
\* returned mode's rate-match status has the current mode's depth, so has
\* the returned one; hence rate-only beats depth-only.
C5_RateThenDepth ==
    Returned =>
        /\ (\E k \in SameSizeAsResult : RateMatch(k)) => RateMatch(result)
        /\ (\E k \in SameSizeAsResult :
                (RateMatch(k) <=> RateMatch(result)) /\ DepthMatch(k))
              => DepthMatch(result)

\* C5 witness: a depth-only match came before a rate-only match of the same
\* size and the rate-only one was returned.
C5_Witness ==
    /\ Returned
    /\ RateMatch(result)
    /\ ~DepthMatch(result)
    /\ \E k \in SameSizeAsResult :
          k < result /\ DepthMatch(k) /\ ~RateMatch(k)

\* C8: after any prefix of get_modes(), best is None exactly when the prefix
\* holds no large-enough mode; otherwise best is a large-enough mode of the
\* prefix that no large-enough mode of the prefix is strictly smaller than.
\* The returned mode is therefore never strictly dominated.
C8_LoopInvariant ==
    /\ pc \in {"loop", "done"} =>
          /\ (best = None) <=> (LargeIn(idx) = {})
          /\ best # None =>
                /\ best \in LargeIn(idx)
                /\ \A k \in LargeIn(idx) : ~Smaller(modes[k], modes[best])
    /\ Returned =>
          \A k \in LargeIn(Len(modes)) : ~Smaller(modes[k], modes[result])

\* C8 witness: before the return, best has replaced an earlier mode and a
\* large-enough mode incomparable with best has been passed over.
C8_Witness ==
    /\ pc = "loop"
    /\ idx >= 3
    /\ best > 1
    /\ \E k \in LargeIn(idx) :
          /\ modes[k].width < modes[best].width
          /\ modes[k].height > modes[best].height

\* ----------------------------------------- properties: get_best_config

Finished == cpc \in {"returned", "raised"}

\* get_matching_configs(t) reports at least one config.
HasMatch(t) == ~matching[t].raises /\ matching[t].items # <<>>

\* C6: with a template, get_best_config returns the first element of
\* get_matching_configs(template) when that list is non-empty and raises
\* NoSuchConfigException when the list is empty or the call raises it; it
\* never returns None.
C6_TemplateGiven ==
    (Finished /\ template = "user") =>
        /\ HasMatch("user") =>
              (cpc = "returned" /\ cresult = matching["user"].items[1])
        /\ ~HasMatch("user") =>
              (cpc = "raised" /\ cresult = "NoSuchConfigException")
        /\ cpc = "returned" => cresult \in Configs

\* C6 witness: the backend returned an empty list for the caller's template
\* and get_best_config raised.
C6_Witness ==
    /\ template = "user"
    /\ cpc = "raised"
    /\ ~matching["user"].raises
    /\ matching["user"].items = <<>>

\* Positions of the fallback templates that have a matching config.
MatchingFallbacks == {i \in 1..Len(FallbackTemplates) :
                         HasMatch(FallbackTemplates[i])}

\* C7: without a template, get_best_config returns the first config of the
\* first fallback template that has a matching config, and raises
\* NoSuchConfigException only when none of the three has one, whether "no
\* match" is an exception or an empty list.
C7_FirstMatchingFallback ==
    (Finished /\ template = "NoTemplate") =>
        IF MatchingFallbacks = {}
        THEN cpc = "raised" /\ cresult = "NoSuchConfigException"
        ELSE LET first == CHOOSE i \in MatchingFallbacks :
                              \A j \in MatchingFallbacks : i <= j
             IN  /\ cpc = "returned"
                 /\ cresult = matching[FallbackTemplates[first]].items[1]

====
